---- MODULE Spec2Model ----
(***************************************************************************)
(* genmap: a hash map with user supplied hash and equality functions, a    *)
(* slab / free-list allocator for the bucket chains, and an iterator that  *)
(* supports removal (src/map.go).                                          *)
(*                                                                         *)
(* Memory model.  A Go slice is (pointer, len, cap).  A slice is modelled  *)
(* as [base, len, cap, elems]: base is the address of its first slot (0 is *)
(* the nil pointer), elems the contents of the cap slots of its backing    *)
(* array.  Every allocation of the Go runtime (make, a growing append)     *)
(* returns fresh zeroed memory at the address brk.  A store through a      *)
(* slice or a pointer is a store at an address: it is applied to every     *)
(* slice the map holds that covers that address.                           *)
(***************************************************************************)
EXTENDS Integers, Sequences, FiniteSets, TLC

\* ---- bounds of the model ------------------------------------------------
MaxKey == 2         \* keys are 0..MaxKey; 0 is the zero value of K
MaxVal == 1         \* values are 0..MaxVal; 0 is the zero value of V
MaxSlabUse == 6     \* slots carved from the slab before carving stops
MaxHeapUse == 8     \* slots allocated by append / make before they stop
MinLen == 1         \* Map.len is kept >= -MinLen
MaxDeepKey == 9     \* the keys of the long-chain runs are 1..MaxDeepKey
MaxDeepHeapUse == 32  \* slots allocated by append / make in the long-chain runs
FreeBuckets == 65   \* the bucket count of the free-list runs
FreeActive == 1     \* the buckets the free-list runs keep in use after the fill

\* ---- program constants --------------------------------------------------
maxFreeSlices == 128
SlabSize == 1024
NilBase == 0

Keys == 0..MaxKey
AllKeys == 0..(IF MaxDeepKey > MaxKey THEN MaxDeepKey ELSE MaxKey)
Vals == 0..MaxVal

\* The element type MapElement[K, V] and its zero value.
ZeroElem == [Key |-> 0, Value |-> 0, hash |-> 0]
MapElement(k, v, h) == [Key |-> k, Value |-> v, hash |-> h]

ZeroArr(n) == [i \in 0..(n - 1) |-> ZeroElem]
NilSlice == [base |-> NilBase, len |-> 0, cap |-> 0, elems |-> ZeroArr(0)]

\* make([]MapElement, n, c): fresh zeroed memory at address a.
MakeSlice(a, n, c) == [base |-> a, len |-> n, cap |-> c, elems |-> ZeroArr(c)]

\* genmap.Equal
Equal(k1, k2) == k1 = k2

\* The constructor's arguments: the bucket count and the hash function.
\* NewMap's arguments: the bucket count and the hash function.  Under the
\* identity every key has a hash of its own and the zero key hashes to 0; under
\* the constant one all keys share one hash, which is not 0.
IdHash == [k \in AllKeys |-> k]
ConstHash == [k \in AllKeys |-> 2]
\* ins is the set of keys the client inserts (Put, Upsert) in a run, a key
\* outside it is never inserted; vals is the set of values it stores; heap
\* bounds the run's allocations.
\* The table's clients store the zero value and one other value.
TableVals == {0, MaxVal}

TableConfigs ==
    { [n |-> 1, h |-> IdHash, ins |-> Keys \ {0}, vals |-> TableVals, heap |-> MaxHeapUse,
        slab |-> MaxSlabUse],
      [n |-> 2, h |-> IdHash, ins |-> Keys, vals |-> TableVals, heap |-> MaxHeapUse,
        slab |-> MaxSlabUse],
      [n |-> 2, h |-> ConstHash, ins |-> Keys, vals |-> TableVals, heap |-> MaxHeapUse,
        slab |-> MaxSlabUse] }

\* The runs that interleave the iterator with the table store one value.
Configs == { [c EXCEPT !.vals = {MaxVal}] : c \in TableConfigs }

\* The long-chain runs: one bucket, the keys 1..MaxDeepKey, one value.
DeepConfigs ==
    { [n |-> 1, h |-> IdHash, ins |-> 1..MaxDeepKey, vals |-> {MaxVal},
       heap |-> MaxDeepHeapUse, slab |-> MaxSlabUse] }

\* The free-list runs: FreeBuckets buckets and two keys for each (k and
\* k + FreeBuckets hash to bucket k).  The client first fills the table, which
\* carves a capacity 1 and a capacity 4 buffer for a bucket, then works on the
\* keys of the last FreeActive buckets.
FreeKeys == 0..(2 * FreeBuckets - 1)
FreeHash == [k \in FreeKeys |-> k]
ActiveKeys == {k \in FreeKeys : k % FreeBuckets >= FreeBuckets - FreeActive}
FreeConfigs ==
    { [n |-> FreeBuckets, h |-> FreeHash, ins |-> ActiveKeys, vals |-> {MaxVal},
       heap |-> MaxHeapUse, slab |-> 5 * FreeBuckets + MaxSlabUse] }

VARIABLES buckets, len, allocBuffer, freeSlices, hash, brk,
          mapPos, pos, ready, panicked, cfg

vars == <<buckets, len, allocBuffer, freeSlices, hash, brk, mapPos, pos, ready, panicked, cfg>>
insKeys == cfg.ins
insVals == cfg.vals
mapVars == <<buckets, len, allocBuffer, freeSlices, hash, brk>>
itVars == <<mapPos, pos, ready>>

\* The Map struct as one value (brk is the runtime's allocation pointer).
Map == [buckets |-> buckets, len |-> len, allocBuffer |-> allocBuffer,
        freeSlices |-> freeSlices, hash |-> hash, brk |-> brk]

NumBuckets(m) == Cardinality(DOMAIN m.buckets)

MinOf(S) == CHOOSE x \in S : \A y \in S : x <= y

\* ---- stores --------------------------------------------------------------
Covers(s, a) == s.base # NilBase /\ s.base <= a /\ a < s.base + s.cap

StoreSlice(s, a, e) ==
    IF Covers(s, a) THEN [s EXCEPT !.elems[a - s.base] = e] ELSE s

\* *(*MapElement)(a) = e, seen through every slice the map holds.
StoreAt(m, a, e) ==
    [m EXCEPT !.buckets = [i \in DOMAIN m.buckets |-> StoreSlice(m.buckets[i], a, e)],
              !.freeSlices = [i \in DOMAIN m.freeSlices |-> StoreSlice(m.freeSlices[i], a, e)]]

RECURSIVE StoreRange(_, _, _, _)
\* for i := 0; i < n; i++ { *(a+i) = e }
StoreRange(m, a, n, e) ==
    IF n = 0 THEN m ELSE StoreRange(StoreAt(m, a + n - 1, e), a, n - 1, e)

\* ---- allocator -----------------------------------------------------------
\* A mutant of newElemSlice: the slab is not truncated after the carve
\* (m.allocBuffer = m.allocBuffer[:last] is missing).
newElemSlice_NoAdvance(m, size, capacity) ==
    LET n == Len(m.freeSlices) IN
    IF n > 0 /\ m.freeSlices[n].len >= size
    THEN [m |-> [m EXCEPT !.freeSlices = SubSeq(m.freeSlices, 1, n - 1)],
          slice |-> m.freeSlices[n]]
    ELSE LET fresh == m.allocBuffer.len < capacity
             ab == IF fresh THEN [base |-> m.brk, len |-> SlabSize] ELSE m.allocBuffer
             last == ab.len - capacity
         IN [m |-> [m EXCEPT !.allocBuffer = ab,
                             !.brk = IF fresh THEN m.brk + SlabSize ELSE m.brk],
             slice |-> MakeSlice(ab.base + last, size, capacity)]

newElemSlice(m, size, capacity) ==
    LET n == Len(m.freeSlices) IN
    IF n > 0 /\ m.freeSlices[n].len >= size
    THEN [m |-> [m EXCEPT !.freeSlices = SubSeq(m.freeSlices, 1, n - 1)],
          slice |-> m.freeSlices[n]]
    ELSE LET fresh == m.allocBuffer.len < capacity
             ab == IF fresh THEN [base |-> m.brk, len |-> SlabSize] ELSE m.allocBuffer
             last == ab.len - capacity
         IN [m |-> [m EXCEPT !.allocBuffer = [base |-> ab.base, len |-> last],
                             !.brk = IF fresh THEN m.brk + SlabSize ELSE m.brk],
             slice |-> MakeSlice(ab.base + last, size, capacity)]

\* A mutant of freeElemSlice: the test of maxFreeSlices is missing.
freeElemSlice_Unbounded(m, slice) ==
    LET m1 == IF slice.len > 0 THEN StoreRange(m, slice.base, slice.len, ZeroElem) ELSE m
    IN [m1 EXCEPT !.freeSlices =
           Append(m1.freeSlices,
                  [slice EXCEPT !.len = 0,
                                !.elems = [i \in 0..(slice.cap - 1) |->
                                             IF i < slice.len THEN ZeroElem
                                             ELSE slice.elems[i]]])]

\* A mutant of freeElemSlice: the slice is truncated without zeroing its
\* elements.
freeElemSlice_NoZero(m, slice) ==
    IF Len(m.freeSlices) < maxFreeSlices
    THEN [m EXCEPT !.freeSlices = Append(m.freeSlices, [slice EXCEPT !.len = 0])]
    ELSE m

freeElemSlice(m, slice) ==
    LET m1 == IF slice.len > 0 THEN StoreRange(m, slice.base, slice.len, ZeroElem) ELSE m
        s1 == IF slice.len > 0
              THEN [slice EXCEPT !.len = 0,
                                 !.elems = [i \in 0..(slice.cap - 1) |->
                                              IF i < slice.len THEN ZeroElem ELSE slice.elems[i]]]
              ELSE slice
    IN IF Len(m1.freeSlices) < maxFreeSlices
       THEN [m1 EXCEPT !.freeSlices = Append(m1.freeSlices, s1)]
       ELSE m1

\* ---- lookup --------------------------------------------------------------
Match(e, h, key) == e.hash = h /\ Equal(e.Key, key)

\* The probe shared by Get, Put, Upsert and Remove: slot 0 first, then the
\* slots 1..len-1 in order; -1 when no slot matches.
Lookup(bucket, h, key) ==
    IF bucket.len = 0 THEN -1
    ELSE IF Match(bucket.elems[0], h, key) THEN 0
    ELSE LET S == {p \in 1..(bucket.len - 1) : Match(bucket.elems[p], h, key)}
         IN IF S = {} THEN -1 ELSE MinOf(S)

Get(m, key) ==
    LET h == m.hash[key]
        bucket == m.buckets[h % NumBuckets(m)]
        p == Lookup(bucket, h, key)
    IN IF p < 0 THEN [Value |-> 0, found |-> FALSE]
       ELSE [Value |-> bucket.elems[p].Value, found |-> TRUE]

MapLen(m) == m.len

\* ---- slices --------------------------------------------------------------
RECURSIVE StoreArr(_, _, _, _)
\* for i := 0; i < n; i++ { *(a+i) = arr[i] }
StoreArr(m, a, arr, n) ==
    IF n = 0 THEN m ELSE StoreArr(StoreAt(m, a + n - 1, arr[n - 1]), a, arr, n - 1)

MinInt(a, b) == IF a < b THEN a ELSE b

\* copy(dst, src): min(len(dst), len(src)) elements, into dst's backing array.
CopySlice(m, dst, src) ==
    LET n == MinInt(dst.len, src.len)
        d == [dst EXCEPT !.elems = [i \in 0..(dst.cap - 1) |->
                                      IF i < n THEN src.elems[i] ELSE dst.elems[i]]]
    IN [m |-> StoreArr(m, dst.base, d.elems, n), slice |-> d]

\* The capacity the runtime gives a slice of capacity c grown by one element
\* (growslice below its 256 element threshold doubles; a nil slice gets 1).
GrowCap(c) == IF c = 0 THEN 1 ELSE 2 * c

\* append(s, e)
AppendSlice(m, s, e) ==
    IF s.len + 1 <= s.cap
    THEN [m |-> StoreAt(m, s.base + s.len, e),
          slice |-> [s EXCEPT !.len = s.len + 1, !.elems[s.len] = e]]
    ELSE LET c == GrowCap(s.cap)
             n == MakeSlice(m.brk, s.len + 1, c)
         IN [m |-> [m EXCEPT !.brk = m.brk + c],
             slice |-> [n EXCEPT !.elems = [i \in 0..(c - 1) |->
                                   IF i < s.len THEN s.elems[i]
                                   ELSE IF i = s.len THEN e ELSE ZeroElem]]]

SetBucket(m, id, bucket) == [m EXCEPT !.buckets[id] = bucket]

\* ---- Put -------------------------------------------------------------------
\* The insertion of a key that the probe did not find (map.go 103-128).
PutNew(m, id, bucket0, e) ==
    LET m1 == [m EXCEPT !.len = m.len + 1]
        a == IF bucket0.base = NilBase THEN newElemSlice(m1, 0, 1)
             ELSE [m |-> m1, slice |-> bucket0]
        bucket == a.slice
    IN IF bucket.len + 1 > bucket.cap
       THEN IF bucket.len < 3
            THEN LET n == newElemSlice(a.m, bucket.len + 1, 4)
                     c == CopySlice(n.m, n.slice, bucket)
                     m2 == freeElemSlice(c.m, bucket)
                 IN [m |-> SetBucket(m2, id, c.slice), path |-> "grow4"]
            ELSE LET g == AppendSlice(a.m, bucket, e)
                 IN [m |-> SetBucket(g.m, id, g.slice), path |-> "append"]
       ELSE LET b1 == [bucket EXCEPT !.len = bucket.len + 1, !.elems[bucket.len] = e]
                m2 == StoreAt(a.m, bucket.base + bucket.len, e)
            IN [m |-> SetBucket(m2, id, b1),
                path |-> IF bucket0.base = NilBase THEN "alloc" ELSE "fit"]

Put(m, key, val) ==
    LET h == m.hash[key]
        id == h % NumBuckets(m)
        bucket == m.buckets[id]
        p == Lookup(bucket, h, key)
    IN IF p >= 0
       THEN [m |-> StoreAt(m, bucket.base + p, [bucket.elems[p] EXCEPT !.Value = val]),
             path |-> "found"]
       ELSE PutNew(m, id, bucket, MapElement(key, val, h))

\* ---- Upsert ----------------------------------------------------------------
\* A mutant of UpdateAt: update is handed a copy of the element
\* (e := bucket[pos]; update(&e, exists)), so what it stores is lost.
UpdateAt_OnCopy(m, a, seen, w) == m

\* The callback update(elem, exists) is modelled as reading *elem and storing
\* the value w into elem.Value.
UpdateAt(m, a, seen, w) == StoreAt(m, a, [seen EXCEPT !.Value = w])

\* The slot of a key that the probe did not find (map.go 151-170): the map
\* after m.buckets[...] = bucket, and the slice and position of the new slot.
UpsertNew(m, id, bucket0, key, h) ==
    LET m1 == [m EXCEPT !.len = m.len + 1]
        a == IF bucket0.base = NilBase THEN newElemSlice(m1, 0, 1)
             ELSE [m |-> m1, slice |-> bucket0]
        bucket == a.slice
        g == IF bucket.len + 1 <= bucket.cap
             THEN [m |-> a.m, slice |-> [bucket EXCEPT !.len = bucket.len + 1],
                   path |-> IF bucket0.base = NilBase THEN "alloc" ELSE "fit"]
             ELSE IF bucket.len < 3
             THEN LET n == newElemSlice(a.m, bucket.len + 1, 4)
                      c == CopySlice(n.m, n.slice, bucket)
                  IN [m |-> freeElemSlice(c.m, bucket), slice |-> c.slice, path |-> "grow4"]
             ELSE LET x == AppendSlice(a.m, bucket, ZeroElem)
                  IN [m |-> x.m, slice |-> x.slice, path |-> "append"]
        p == (g.slice.len - 1) % g.slice.len
        e == [g.slice.elems[p] EXCEPT !.hash = h, !.Key = key]
        b1 == [g.slice EXCEPT !.elems[p] = e]
    IN [m |-> SetBucket(StoreAt(g.m, b1.base + p, e), id, b1),
        ref |-> b1.base + p, seen |-> e, path |-> g.path]

\* A mutant of Upsert: m.len++ is missing from the insertion of a new key.
Upsert_NoCount(m, key, w) ==
    LET h == m.hash[key]
        id == h % NumBuckets(m)
        bucket == m.buckets[id]
        p == Lookup(bucket, h, key)
    IN IF p >= 0
       THEN [m |-> UpdateAt(m, bucket.base + p, bucket.elems[p], w), exists |-> TRUE,
             seen |-> bucket.elems[p], ref |-> bucket.base + p, calls |-> 1, path |-> "found"]
       ELSE LET u == UpsertNew(m, id, bucket, key, h)
            IN [m |-> [UpdateAt(u.m, u.ref, u.seen, w) EXCEPT !.len = m.len],
                exists |-> FALSE, seen |-> u.seen, ref |-> u.ref, calls |-> 1,
                path |-> u.path]

\* update is called once, last: with exists = TRUE on the slot found, or with
\* exists = FALSE on the new slot.
Upsert(m, key, w) ==
    LET h == m.hash[key]
        id == h % NumBuckets(m)
        bucket == m.buckets[id]
        p == Lookup(bucket, h, key)
    IN IF p >= 0
       THEN [m |-> UpdateAt(m, bucket.base + p, bucket.elems[p], w), exists |-> TRUE,
             seen |-> bucket.elems[p], ref |-> bucket.base + p, calls |-> 1, path |-> "found"]
       ELSE LET u == UpsertNew(m, id, bucket, key, h)
            IN [m |-> UpdateAt(u.m, u.ref, u.seen, w), exists |-> FALSE,
                seen |-> u.seen, ref |-> u.ref, calls |-> 1, path |-> u.path]

\* ---- Remove ----------------------------------------------------------------
\* Map.remove: pos % len(bucket) is a division by zero (a run-time panic, after
\* m.len--) when the bucket is empty.
remove(m, bucketID, p0) ==
    LET m1 == [m EXCEPT !.len = m.len - 1]
        id == bucketID % NumBuckets(m)
        bucket == m1.buckets[id]
    IN IF bucket.len = 0
       THEN [m |-> m1, elem |-> ZeroElem, panicked |-> TRUE]
       ELSE
       LET p == p0 % bucket.len
           elem == bucket.elems[p]
           n == bucket.len
           shifted == [i \in 0..(bucket.cap - 1) |->
                         IF i >= p /\ i < n - 1 THEN bucket.elems[i + 1]
                         ELSE IF i = n - 1 THEN ZeroElem
                         ELSE bucket.elems[i]]
           m2 == StoreArr(m1, bucket.base, shifted, n)
           b1 == [bucket EXCEPT !.elems = shifted, !.len = n - 1]
       IN IF b1.len = 0
          THEN [m |-> SetBucket(freeElemSlice(m2, b1), id, NilSlice),
                elem |-> elem, panicked |-> FALSE]
          ELSE IF b1.len + 1 < b1.cap \div 3
          THEN LET nb == MakeSlice(m2.brk, b1.cap \div 2, b1.cap \div 2)
                   c == CopySlice([m2 EXCEPT !.brk = m2.brk + (b1.cap \div 2)], nb, b1)
               IN [m |-> SetBucket(c.m, id, c.slice), elem |-> elem, panicked |-> FALSE]
          ELSE [m |-> SetBucket(m2, id, b1), elem |-> elem, panicked |-> FALSE]

Remove(m, key) ==
    LET h == m.hash[key]
        bucketID == h % NumBuckets(m)
        bucket == m.buckets[bucketID]
        p == Lookup(bucket, h, key)
    IN IF p < 0
       THEN [m |-> m, elem |-> ZeroElem, found |-> FALSE]
       ELSE LET r == remove(m, bucketID, p)
            IN [m |-> r.m, elem |-> r.elem, found |-> TRUE]

\* A mutant of Clear: the chains are truncated (bucket[:0]), not dropped.
Clear_Truncate(m) ==
    [m EXCEPT !.buckets = [i \in DOMAIN m.buckets |-> [m.buckets[i] EXCEPT !.len = 0]],
              !.len = 0]

RECURSIVE FreeChains(_, _)
\* freeElemSlice of the chains of the buckets 0..n-1.
FreeChains(m, n) ==
    IF n = 0 THEN m
    ELSE LET m1 == FreeChains(m, n - 1)
         IN IF m1.buckets[n - 1].base = NilBase THEN m1
            ELSE freeElemSlice(m1, m1.buckets[n - 1])

\* A mutant of Clear: every chain is handed to freeElemSlice before the bucket
\* is set to nil.
Clear_FreeChains(m) ==
    [FreeChains(m, NumBuckets(m)) EXCEPT
        !.buckets = [i \in DOMAIN m.buckets |-> NilSlice], !.len = 0]

Clear(m) ==
    [m EXCEPT !.buckets = [i \in DOMAIN m.buckets |-> NilSlice], !.len = 0]

\* ---- iterator --------------------------------------------------------------
Iter == [mapPos |-> mapPos, pos |-> pos, ready |-> ready]

RECURSIVE Scan(_, _, _)
\* The loop of MapIterator.Next (map.go 269-278).
Scan(m, mp, p) ==
    IF mp < NumBuckets(m)
    THEN IF p < m.buckets[mp].len
         THEN [it |-> [mapPos |-> mp, pos |-> p, ready |-> TRUE], ok |-> TRUE]
         ELSE Scan(m, mp + 1, 0)
    ELSE [it |-> [mapPos |-> mp, pos |-> p, ready |-> FALSE], ok |-> FALSE]

\* A mutant of ItNext: a ready cursor is advanced without the scan for the next
\* slot within a chain.
ItNext_NoScan(m, it) ==
    IF it.ready
    THEN [it |-> [it EXCEPT !.pos = it.pos + 1], ok |-> TRUE]
    ELSE Scan(m, it.mapPos, it.pos)

\* A mutant of ItNext: an exhausted iterator starts over from bucket 0.
ItNext_Rewind(m, it) ==
    IF it.mapPos >= NumBuckets(m)
    THEN Scan(m, 0, 0)
    ELSE Scan(m, it.mapPos, IF it.ready THEN it.pos + 1 ELSE it.pos)

ItNext(m, it) == Scan(m, it.mapPos, IF it.ready THEN it.pos + 1 ELSE it.pos)

ItCur(m, it) ==
    IF ~it.ready \/ it.mapPos >= NumBuckets(m) \/ it.pos >= m.buckets[it.mapPos].len
    THEN [panicked |-> TRUE, ref |-> NilBase, elem |-> ZeroElem]
    ELSE [panicked |-> FALSE, ref |-> m.buckets[it.mapPos].base + it.pos,
          elem |-> m.buckets[it.mapPos].elems[it.pos]]

\* A mutant of ItRemove: the check of it.ready is missing.
ItRemove_Unchecked(m, it) ==
    LET r == remove(m, it.mapPos, it.pos)
    IN [m |-> r.m, it |-> [it EXCEPT !.ready = FALSE], elem |-> r.elem,
        panicked |-> r.panicked]

ItRemove(m, it) ==
    IF ~it.ready
    THEN [m |-> m, it |-> it, elem |-> ZeroElem, panicked |-> TRUE]
    ELSE LET r == remove(m, it.mapPos, it.pos)
         IN [m |-> r.m, it |-> [it EXCEPT !.ready = FALSE], elem |-> r.elem,
             panicked |-> r.panicked]

ItReset(it) == [mapPos |-> 0, pos |-> 0, ready |-> FALSE]

\* ---- the state machine -----------------------------------------------------
\* The model stops allocating at its bounds.
Bounded(m) ==
    /\ m.allocBuffer.base # NilBase => SlabSize - m.allocBuffer.len <= cfg.slab
    /\ m.brk <= 1 + SlabSize + cfg.heap
    /\ m.len >= 0 - MinLen

SetMap(m) ==
    /\ Bounded(m)
    /\ buckets' = m.buckets
    /\ len' = m.len
    /\ allocBuffer' = m.allocBuffer
    /\ freeSlices' = m.freeSlices
    /\ brk' = m.brk
    /\ hash' = m.hash

SetIter(it) ==
    /\ mapPos' = it.mapPos
    /\ pos' = it.pos
    /\ ready' = it.ready

\* NewMap, and Map.Iterator on it.  panicked: the last call ended in a panic.
NewMap(C) ==
    /\ \E c \in C :
          /\ buckets = [i \in 0..(c.n - 1) |-> NilSlice]
          /\ hash = c.h
          /\ cfg = [ins |-> c.ins, vals |-> c.vals, heap |-> c.heap, slab |-> c.slab]
    /\ len = 0
    /\ allocBuffer = [base |-> NilBase, len |-> 0]
    /\ freeSlices = << >>
    /\ brk = 1
    /\ mapPos = 0
    /\ pos = 0
    /\ ready = FALSE
    /\ panicked = FALSE

Init == NewMap(Configs)

TableInit == NewMap(TableConfigs)

DeepInit == NewMap(DeepConfigs)

CallPut(key, val) ==
    /\ SetMap(Put(Map, key, val).m)
    /\ panicked' = FALSE
    /\ UNCHANGED <<itVars, cfg>>

CallUpsert(key, w) ==
    /\ SetMap(Upsert(Map, key, w).m)
    /\ panicked' = FALSE
    /\ UNCHANGED <<itVars, cfg>>

CallRemove(key) ==
    /\ SetMap(Remove(Map, key).m)
    /\ panicked' = FALSE
    /\ UNCHANGED <<itVars, cfg>>

CallClear ==
    /\ SetMap(Clear(Map))
    /\ panicked' = FALSE
    /\ UNCHANGED <<itVars, cfg>>

CallNext ==
    /\ SetIter(ItNext(Map, Iter).it)
    /\ panicked' = FALSE
    /\ UNCHANGED <<mapVars, cfg>>

CallCur ==
    /\ panicked' = ItCur(Map, Iter).panicked
    /\ UNCHANGED <<mapVars, itVars, cfg>>

CallItRemove ==
    LET r == ItRemove(Map, Iter) IN
    /\ SetMap(r.m)
    /\ SetIter(r.it)
    /\ panicked' = r.panicked
    /\ UNCHANGED cfg

CallReset ==
    /\ SetIter(ItReset(Iter))
    /\ panicked' = FALSE
    /\ UNCHANGED <<mapVars, cfg>>

\* The table's own operations.
TableStep ==
    \/ \E key \in insKeys, val \in insVals : CallPut(key, val)
    \/ \E key \in insKeys, w \in insVals : CallUpsert(key, w)
    \/ \E key \in Keys : CallRemove(key)
    \/ CallClear

\* The iterator's operations.
IterStep ==
    \/ CallNext
    \/ CallCur
    \/ CallItRemove
    \/ CallReset

Step == TableStep \/ IterStep

\* The long-chain client: it inserts its keys in increasing order (the next key
\* is the successor of the largest key stored), removes any key, and clears.
NextKey(m) ==
    LET S == {k \in AllKeys : Get(m, k).found /\ k > 0}
    IN IF S = {} THEN 1 ELSE 1 + (CHOOSE x \in S : \A y \in S : y <= x)

DeepStep ==
    \/ \E val \in insVals : NextKey(Map) \in insKeys /\ CallPut(NextKey(Map), val)
    \/ \E w \in insVals : NextKey(Map) \in insKeys /\ CallUpsert(NextKey(Map), w)
    \/ \E key \in AllKeys : CallRemove(key)
    \/ CallClear

Spec == Init /\ [][Step]_vars

\* The table alone: any sequence of Put, Upsert, Remove and Clear.
TableSpec == TableInit /\ [][TableStep]_vars

\* The table alone, on chains long enough to grow by append and to shrink.
DeepSpec == DeepInit /\ [][DeepStep]_vars

\* The free-list client.  It fills the table: Upsert of the first key of every
\* bucket (a capacity 1 buffer each), Upsert of the second key of every bucket
\* but the last (the chain moves to a capacity 4 buffer, the capacity 1 buffer
\* is freed), Remove of every key outside the last FreeActive buckets (the
\* capacity 4 buffers are freed).  Then it calls Put, Upsert and Remove on the
\* keys of the last FreeActive buckets (Clear frees no buffer).
FreeInit == NewMap(FreeConfigs)

Filled == /\ Len(freeSlices) >= FreeBuckets - 1
          /\ \A b \in 0..(FreeBuckets - FreeActive - 1) : buckets[b].len = 0

\* The key the fill removes next: the first keys of the buckets outside the
\* last FreeActive in bucket order, then their second keys; the table holds
\* 2 * FreeBuckets - 1 keys when the removals start.
DrainKey ==
    LET d == 2 * FreeBuckets - 1 - len
    IN IF d < FreeBuckets - FreeActive THEN d
       ELSE FreeBuckets + (d - (FreeBuckets - FreeActive))

\* The fill's insertions are not finished.
Filling ==
    \/ Len(freeSlices) = 0 /\ len < FreeBuckets
    \/ /\ len >= FreeBuckets /\ len = FreeBuckets + Len(freeSlices)
       /\ Len(freeSlices) < FreeBuckets - 1

\* The fill's removals are not finished.
Draining ==
    /\ Len(freeSlices) >= FreeBuckets - 1
    /\ \E b \in 0..(FreeBuckets - FreeActive - 1) : buckets[b].len > 0

\* The keys the client may insert and remove in the current state.
UpsertKeys == IF Filling THEN {len} ELSE IF Filled THEN insKeys ELSE {}
RemoveKeys == IF Draining THEN {DrainKey} ELSE IF Filled THEN insKeys ELSE {}

FreeStep ==
    \/ \E key \in UpsertKeys, w \in insVals : CallUpsert(key, w)
    \/ \E key \in RemoveKeys : CallRemove(key)
    \/ Filled /\ \E key \in insKeys, val \in insVals : CallPut(key, val)

FreeListSpec == FreeInit /\ [][FreeStep]_vars

\* ---- client loops ------------------------------------------------------------
RECURSIVE Drain(_, _, _, _)
\* for it.Next() { it.Remove() }: the number of successful Next calls and the
\* keys Remove returned, in order.
Drain(m, it, nexts, keys) ==
    LET n == ItNext(m, it) IN
    IF ~n.ok
    THEN [m |-> m, it |-> n.it, nexts |-> nexts, keys |-> keys]
    ELSE LET r == ItRemove(m, n.it)
         IN Drain(r.m, r.it, nexts + 1, Append(keys, r.elem.Key))

RECURSIVE Iterate(_, _, _)
\* for it.Next() { it.Cur() }: the cursor positions and the keys Cur designates.
Iterate(m, it, visited) ==
    LET n == ItNext(m, it) IN
    IF ~n.ok
    THEN visited
    ELSE Iterate(m, n.it, Append(visited, [mapPos |-> n.it.mapPos, pos |-> n.it.pos,
                                           Key |-> ItCur(m, n.it).elem.Key]))

Count(seq, x) == Cardinality({i \in DOMAIN seq : seq[i] = x})
Found(v) == [Value |-> v, found |-> TRUE]
NotFound == [Value |-> 0, found |-> FALSE]
BucketOf(m, key) == m.buckets[m.hash[key] % NumBuckets(m)]

\* ---- claims ------------------------------------------------------------------

\* C1: in every state reachable by Put, Upsert, Remove and Clear, and for every
\* key k and value v: after Put(k, v), Get(k) returns (v, true) and Get(k')
\* returns what it returned before for every other key k'.
C1_PutThenGet ==
    \A k \in Keys, v \in Vals :
        LET m2 == Put(Map, k, v).m IN
        /\ Get(m2, k) = Found(v)
        /\ \A k2 \in Keys \ {k} : Get(m2, k2) = Get(Map, k2)

\* C2: in every reachable state, Remove(k) after Put(k, v) returns the entry
\* (k, v) with found = true and decrements Len() by one, after which Get(k) is
\* not-found and Get of every other key is unchanged; a second Remove(k) returns
\* found = false and leaves Len() unchanged.
C2_RemoveAfterPut ==
    \A k \in Keys, v \in Vals :
        LET m1 == Put(Map, k, v).m
            r1 == Remove(m1, k)
            r2 == Remove(r1.m, k)
        IN /\ r1.found /\ r1.elem.Key = k /\ r1.elem.Value = v
           /\ MapLen(r1.m) = MapLen(m1) - 1
           /\ Get(r1.m, k) = NotFound
           /\ \A k2 \in Keys \ {k} : Get(r1.m, k2) = Get(m1, k2)
           /\ ~r2.found /\ MapLen(r2.m) = MapLen(r1.m)

\* C3: for a table holding N = Len() entries, repeating Next() and iterator
\* Remove() from a fresh or Reset iterator until Next() returns false: Next()
\* succeeds exactly N times, every stored key is returned by exactly one
\* Remove(), and afterwards Len() = 0 and every bucket is empty.
C3_DrainVisitsAll ==
    LET d == Drain(Map, ItReset(Iter), 0, << >>) IN
    /\ d.nexts = MapLen(Map)
    /\ \A k \in Keys : Count(d.keys, k) = IF Get(Map, k).found THEN 1 ELSE 0
    /\ MapLen(d.m) = 0
    /\ \A i \in DOMAIN d.m.buckets : d.m.buckets[i].len = 0

\* C4: for every reachable table state with N = Len() entries and every iterator
\* state, with no mutation during the loop: Reset() followed by Next() until it
\* returns false yields exactly N successful Next() calls; the N cursor positions
\* are pairwise distinct, each designates an entry whose key Get finds, and no
\* key is visited twice.
C4_IterationComplete ==
    LET v == Iterate(Map, ItReset(Iter), << >>) IN
    /\ Len(v) = MapLen(Map)
    /\ \A i, j \in DOMAIN v :
          i # j => /\ <<v[i].mapPos, v[i].pos>> # <<v[j].mapPos, v[j].pos>>
                   /\ v[i].Key # v[j].Key
    /\ \A i \in DOMAIN v : Get(Map, v[i].Key).found

\* C5: in every reachable table state, Upsert(k, f): if k is absent, f is called
\* with exists = false and Len() increases by exactly one; if k is present with
\* value v, f is called with exists = true on an element whose Key is k and
\* whose Value is v, and Len() is unchanged.  In both cases no other key's Get
\* result changes.
C5_UpsertContract ==
    \A k \in Keys, w \in Vals :
        LET g == Get(Map, k)
            u == Upsert(Map, k, w)
        IN /\ ~g.found => /\ ~u.exists
                          /\ MapLen(u.m) = MapLen(Map) + 1
           /\ g.found => /\ u.exists
                         /\ u.seen.Key = k
                         /\ u.seen.Value = g.Value
                         /\ MapLen(u.m) = MapLen(Map)
           /\ \A k2 \in Keys \ {k} : Get(u.m, k2) = Get(Map, k2)

\* C5 witness: a state with a stored key of non-zero value, and an absent key
\* of the same bucket whose Upsert moves the chain to a capacity 4 buffer.
C5_Witness ==
    \E k1, k2 \in Keys :
        /\ Get(Map, k1).found /\ Get(Map, k1).Value # 0
        /\ ~Get(Map, k2).found
        /\ BucketOf(Map, k1) = BucketOf(Map, k2)
        /\ Upsert(Map, k1, 0).exists
        /\ Upsert(Map, k2, 1).path = "grow4"

\* C6: every Upsert(k, f) invokes f exactly once, on the slot that the table
\* holds for k when Upsert returns: the value f writes through the reference is
\* what a following Get(k) returns, for a new and for an existing key and on
\* every growth path of the chain.
C6_UpsertCallbackSlot ==
    \A k \in AllKeys, w \in Vals :
        LET u == Upsert(Map, k, w)
            b == BucketOf(u.m, k)
            p == Lookup(b, u.m.hash[k], k)
        IN /\ u.calls = 1
           /\ p >= 0
           /\ u.ref = b.base + p
           /\ Get(u.m, k) = Found(w)

\* C6 witness: a state in which the Upsert of a new key grows a full chain by
\* append, and one of a stored key finds its slot behind slot 0.
C6_Witness ==
    \E k1, k2 \in AllKeys :
        /\ Upsert(Map, k1, 0).path = "append"
        /\ Upsert(Map, k2, 0).path = "found"
        /\ Get(Map, k2) = Found(MaxVal)
        /\ Lookup(BucketOf(Map, k2), hash[k2], k2) > 0

\* C7: in every reachable state and for every key k, Put(k, v1); Put(k, v2)
\* leaves Len() after the second Put equal to Len() after the first, and Get(k)
\* then returns (v2, true).
C7_PutOverwrite ==
    \A k \in Keys, v1, v2 \in Vals :
        LET m1 == Put(Map, k, v1).m
            m2 == Put(m1, k, v2).m
        IN /\ MapLen(m2) = MapLen(m1)
           /\ Get(m2, k) = Found(v2)

\* C8: for a key never inserted by Put or Upsert, in every reachable state, Get
\* returns found = false with the zero value, and Remove returns found = false
\* and changes neither Len() nor any bucket nor the allocator.
C8_Absence ==
    \A k \in Keys \ insKeys :
        /\ Get(Map, k) = NotFound
        /\ ~Remove(Map, k).found
        /\ Remove(Map, k).m = Map

\* C9: from every reachable state, after Clear(): Len() = 0, every bucket is
\* unallocated, Get finds no key, the bucket array keeps its length, and a
\* following Put or Upsert of a key makes it retrievable again.
C9_Clear ==
    LET c == Clear(Map) IN
    /\ MapLen(c) = 0
    /\ DOMAIN c.buckets = DOMAIN buckets
    /\ \A i \in DOMAIN c.buckets : c.buckets[i] = NilSlice
    /\ \A k \in Keys : Get(c, k) = NotFound
    /\ \A k \in Keys, v \in Vals :
          /\ Get(Put(c, k, v).m, k) = Found(v)
          /\ Get(Upsert(c, k, v).m, k) = Found(v)

\* C9 witness: a table with two chains, one of them grown, holding non-zero
\* values, and a buffer on the free list.
C9_Witness ==
    /\ len >= 3
    /\ \A i \in DOMAIN buckets : buckets[i].len > 0
    /\ \E i \in DOMAIN buckets : buckets[i].cap >= 4
    /\ \E k \in Keys : Get(Map, k).found /\ Get(Map, k).Value # 0
    /\ Len(freeSlices) > 0

\* C10: Cur() or iterator Remove() called while the iterator is not ready (before
\* the first successful Next(), after Next() returned false, after Reset(), after
\* Remove()) panics and changes neither the table nor the iterator cursor.
C10_NotReadyPanics ==
    LET Fails(m, it) ==
            /\ ~it.ready
            /\ ItCur(m, it).panicked
            /\ ItRemove(m, it).panicked
            /\ ItRemove(m, it).m = m
            /\ ItRemove(m, it).it = it
    IN /\ ~ready => Fails(Map, Iter)
       /\ Fails(Map, ItReset(Iter))
       /\ ~ItNext(Map, Iter).ok => Fails(Map, ItNext(Map, Iter).it)
       /\ ready => Fails(ItRemove(Map, Iter).m, ItRemove(Map, Iter).it)

\* C10 witness: the last call panicked on an iterator that a Remove() left not
\* ready in the middle of a chain, with entries still stored.
C10_Witness ==
    /\ panicked
    /\ ~ready
    /\ len > 0
    /\ mapPos < NumBuckets(Map)
    /\ pos < buckets[mapPos].len
    /\ pos > 0

\* ---- chains ------------------------------------------------------------------
\* The chain of a bucket: its entries within its length, in slot order.
ChainOf(s) == [i \in 1..s.len |-> s.elems[i - 1]]

\* A sequence without its element at the 0-based position p.
Without(seq, p) ==
    [i \in 1..(Len(seq) - 1) |-> IF i <= p THEN seq[i] ELSE seq[i + 1]]

RECURSIVE SumLen(_, _)
\* The sum of the chain lengths of the buckets 0..n-1.
SumLen(m, n) == IF n = 0 THEN 0 ELSE m.buckets[n - 1].len + SumLen(m, n - 1)

\* The cursor designates a slot within a chain.
InBounds(m, it) == it.mapPos < NumBuckets(m) /\ it.pos < m.buckets[it.mapPos].len

\* C11: in every state reachable by interleaving iterator and table operations
\* in which the iterator is ready, iterator Remove() removes and returns exactly
\* the entry Cur() returns: Len() decreases by one, ready becomes false, and
\* every other entry of every chain stays, in order.
C11_IterRemove ==
    ready =>
        LET c == ItCur(Map, Iter)
            r == ItRemove(Map, Iter)
        IN /\ ~c.panicked
           /\ ~r.panicked
           /\ r.elem = c.elem
           /\ MapLen(r.m) = MapLen(Map) - 1
           /\ ~r.it.ready
           /\ \A i \in DOMAIN buckets :
                 ChainOf(r.m.buckets[i]) =
                     IF i = mapPos THEN Without(ChainOf(buckets[i]), pos)
                     ELSE ChainOf(buckets[i])

\* C12: in every state reachable by Put, Upsert, Remove, Clear and iterator
\* Remove, Len() equals the sum of the chain lengths of all buckets.
C12_LenIsSum == MapLen(Map) = SumLen(Map, NumBuckets(Map))

\* C13: in every reachable state every entry within the length of the chain of
\* bucket b is one written with an inserted key and its hash: its cached hash
\* is the hash of its key, and that hash modulo the bucket count is b.
C13_HashCached ==
    \A b \in DOMAIN buckets : \A s \in 0..(buckets[b].len - 1) :
        LET e == buckets[b].elems[s] IN
        /\ e.Key \in insKeys
        /\ e.hash = hash[e.Key]
        /\ e.hash % NumBuckets(Map) = b

\* C14: in every reachable state no chain holds, within its length, two entries
\* whose keys are equal under the equality function.
C14_NoDuplicateKey ==
    \A b \in DOMAIN buckets : \A s, t \in 0..(buckets[b].len - 1) :
        s # t => ~Equal(buckets[b].elems[s].Key, buckets[b].elems[t].Key)

\* C15: removing the entry at position p of a chain of length L, by Remove(key)
\* or by position as iterator Remove does, leaves the chain with length L - 1,
\* holding the other L - 1 entries in their previous order, also when the
\* chain is reallocated to half its capacity.
C15_RemoveCompacts ==
    /\ \A b \in DOMAIN buckets : \A p \in 0..(buckets[b].len - 1) :
          LET r == remove(Map, b, p) IN
          /\ r.m.buckets[b].len = buckets[b].len - 1
          /\ ChainOf(r.m.buckets[b]) = Without(ChainOf(buckets[b]), p)
    /\ \A k \in AllKeys :
          LET b == hash[k] % NumBuckets(Map)
              p == Lookup(buckets[b], hash[k], k)
              r == Remove(Map, k)
          IN p >= 0 => /\ r.m.buckets[b].len = buckets[b].len - 1
                       /\ ChainOf(r.m.buckets[b]) = Without(ChainOf(buckets[b]), p)

\* C16 as stated: in every state reachable by interleaving the iterator's
\* operations with Put, Upsert, Remove(key) and Clear, whenever ready is true the
\* cursor is in bounds.
C16_ReadyInBounds == ready => InBounds(Map, Iter)

\* C16 amended: whenever ready is true the cursor is in bounds, unless a
\* Remove(key) or a Clear() after the last successful Next() shortened the chain
\* under the cursor.  As a property of every step: a step that leaves the
\* iterator ready with its cursor out of bounds started with the iterator ready,
\* and either the cursor was out of bounds already or the step shortened the
\* cursor's chain.
C16_ReadyInBoundsUnlessShortened ==
    [][ (ready' /\ ~InBounds(Map, Iter)')
          => /\ ready
             /\ \/ ~InBounds(Map, Iter)
                \/ /\ mapPos' = mapPos /\ pos' = pos
                   /\ buckets'[mapPos].len < buckets[mapPos].len ]_vars

\* C16 witness: a ready iterator on the second slot of a chain, with entries in
\* another bucket too, after a call that did not panic.
C16_Witness ==
    /\ ready /\ ~panicked
    /\ InBounds(Map, Iter)
    /\ pos >= 1
    /\ \E b \in DOMAIN buckets : b # mapPos /\ buckets[b].len > 0

\* Every slot of s at or past index from holds the zero entry.
ZeroFrom(s, from) == \A i \in from..(s.cap - 1) : s.elems[i] = ZeroElem

\* C17: Upsert on a missing key k hands the callback an element with Key = k and
\* the zero Value, never a stale one; in every reachable state every slot at or
\* past the length of a bucket's chain, and every slot of every buffer on the
\* free list, holds the zero entry.
C17_UpsertZeroValue ==
    /\ \A b \in DOMAIN buckets : ZeroFrom(buckets[b], buckets[b].len)
    /\ \A i \in DOMAIN freeSlices : ZeroFrom(freeSlices[i], 0)
    /\ \A k \in AllKeys, w \in Vals :
          ~Get(Map, k).found =>
              LET u == Upsert(Map, k, w) IN
              /\ ~u.exists
              /\ u.seen = MapElement(k, 0, hash[k])

\* C17 witness: a table holding a non-zero value and a chain that shrank from
\* two entries or more to one inside its capacity 4 buffer; the Upsert of one
\* missing key takes the slot the chain gave up, the Upsert of another takes a
\* buffer of the free list.
C17_Witness ==
    /\ Len(freeSlices) > 0
    /\ \E k \in Keys : Get(Map, k) = Found(MaxVal)
    /\ \E k1, k2 \in Keys :
          /\ ~Get(Map, k1).found /\ Upsert(Map, k1, 1).path = "fit"
          /\ BucketOf(Map, k1).len = 1 /\ BucketOf(Map, k1).cap = 4
          /\ ~Get(Map, k2).found /\ Upsert(Map, k2, 1).path = "alloc"

\* The storage a slice owns: the cap slots of its backing array from its base.
Region(s) == IF s.base = NilBase THEN {} ELSE s.base..(s.base + s.cap - 1)

\* The not yet carved remainder of the current slab.
SlabRest(m) ==
    IF m.allocBuffer.base = NilBase THEN {}
    ELSE m.allocBuffer.base..(m.allocBuffer.base + m.allocBuffer.len - 1)

\* C18: in every reachable state each storage slot has at most one owner: no two
\* chains overlap, no free buffer overlaps a chain or another free buffer, and
\* none of them overlaps the remainder of the slab; hence Put, Upsert and Remove
\* of a key change no entry of another bucket.
C18_SingleOwner ==
    /\ \A b1, b2 \in DOMAIN buckets :
          b1 # b2 => Region(buckets[b1]) \cap Region(buckets[b2]) = {}
    /\ \A i, j \in DOMAIN freeSlices :
          i # j => Region(freeSlices[i]) \cap Region(freeSlices[j]) = {}
    /\ \A b \in DOMAIN buckets : \A i \in DOMAIN freeSlices :
          /\ freeSlices[i].base # NilBase
          /\ Region(buckets[b]) \cap Region(freeSlices[i]) = {}
    /\ \A b \in DOMAIN buckets : Region(buckets[b]) \cap SlabRest(Map) = {}
    /\ \A i \in DOMAIN freeSlices : Region(freeSlices[i]) \cap SlabRest(Map) = {}
    /\ \A k \in Keys, v \in Vals : \A b \in DOMAIN buckets :
          b # hash[k] % NumBuckets(Map) =>
              /\ ChainOf(Put(Map, k, v).m.buckets[b]) = ChainOf(buckets[b])
              /\ ChainOf(Upsert(Map, k, v).m.buckets[b]) = ChainOf(buckets[b])
              /\ ChainOf(Remove(Map, k).m.buckets[b]) = ChainOf(buckets[b])

\* C18 witness: two chains, a buffer on the free list and a slab from which
\* three buffers or more were carved.
C18_Witness ==
    /\ NumBuckets(Map) = 2
    /\ \A b \in DOMAIN buckets : buckets[b].len > 0
    /\ Len(freeSlices) > 0
    /\ allocBuffer.base # NilBase
    /\ allocBuffer.len < SlabSize - 4

\* C19: Clear() changes only the bucket array and len: the free list (its
\* buffers and their order), the slab and its free-space marker are unchanged;
\* no chain dropped by Clear is pushed onto the free list.
C19_ClearFrame ==
    LET c == Clear(Map) IN
    /\ c.freeSlices = freeSlices
    /\ c.allocBuffer = allocBuffer
    /\ c.brk = brk
    /\ c.hash = hash

\* C19 witness: a table with a chain of two entries or more in a capacity 4
\* buffer, a buffer on the free list and a slab from which three buffers were
\* carved.
C19_Witness ==
    /\ len >= 2
    /\ \E b \in DOMAIN buckets : buckets[b].cap = 4 /\ buckets[b].len >= 2
    /\ Len(freeSlices) >= 1
    /\ allocBuffer.base # NilBase
    /\ allocBuffer.len <= SlabSize - 6

\* The state Next() leaves when it returns false: the scan has run off the
\* bucket array.
Exhausted == mapPos >= NumBuckets(Map) /\ ~ready

\* The slots within the chains of the table.
Slots(m) ==
    UNION { {<<b, p>> : p \in 0..(m.buckets[b].len - 1)} : b \in DOMAIN m.buckets }

\* C20: once Next() has returned false, every later Next() returns false and
\* Cur() and Remove() keep failing until Reset() is called, whatever Put,
\* Upsert, Remove or Clear is performed in between; and a full iteration after
\* Reset() visits every entry then stored: every slot within a chain exactly
\* once, every key that Get finds among them.
C20_ExhaustedUntilReset ==
    /\ [](Exhausted =>
             /\ ~ItNext(Map, Iter).ok
             /\ ItNext(Map, Iter).it = Iter
             /\ ItCur(Map, Iter).panicked
             /\ ItRemove(Map, Iter).panicked)
    /\ [][Exhausted => (Exhausted' \/ Iter' = ItReset(Iter))]_vars
    /\ [](LET v == Iterate(Map, ItReset(Iter), << >>) IN
          /\ {<<v[i].mapPos, v[i].pos>> : i \in DOMAIN v} = Slots(Map)
          /\ \A i, j \in DOMAIN v :
                i # j => <<v[i].mapPos, v[i].pos>> # <<v[j].mapPos, v[j].pos>>
          /\ \A k \in Keys : Get(Map, k).found => \E i \in DOMAIN v : v[i].Key = k)

\* C20 witness: an exhausted iterator on which the last call panicked, over a
\* table that holds entries and has recycled a buffer.
C20_Witness ==
    /\ Exhausted
    /\ panicked
    /\ len >= 2
    /\ Len(freeSlices) > 0

\* What freeElemSlice(s) must leave of the free list fl: fl itself when it holds
\* maxFreeSlices buffers, else fl and s behind it, with length 0 and its
\* capacity.
Pushed(fl, s, after) ==
    IF Len(fl) >= maxFreeSlices
    THEN after = fl
    ELSE /\ Len(after) = Len(fl) + 1
         /\ SubSeq(after, 1, Len(fl)) = fl
         /\ after[Len(after)].base = s.base
         /\ after[Len(after)].len = 0
         /\ after[Len(after)].cap = s.cap

\* C21: in every reachable state the free list holds at most 128 buffers; a
\* freeElemSlice call made while it holds 128 leaves the list unchanged, one
\* made while it holds fewer appends exactly that buffer, with length 0 and
\* its capacity.  The calls are those on a chain, and that of a Remove which
\* empties a chain.
C21_FreeListBound ==
    /\ Len(freeSlices) <= maxFreeSlices
    /\ \A b \in DOMAIN buckets :
          buckets[b].base # NilBase =>
              Pushed(freeSlices, buckets[b], freeElemSlice(Map, buckets[b]).freeSlices)
    /\ \A k \in insKeys :
          (Get(Map, k).found /\ BucketOf(Map, k).len = 1) =>
              Pushed(freeSlices, BucketOf(Map, k), Remove(Map, k).m.freeSlices)

\* C21 witness: the free list holds 128 buffers and a chain of one stored key
\* is left, whose Remove calls freeElemSlice.
C21_Witness ==
    /\ Len(freeSlices) = maxFreeSlices
    /\ \E k \in insKeys : Get(Map, k).found /\ BucketOf(Map, k).len = 1

\* The requests the table makes of newElemSlice: (0, 1) for an unallocated
\* bucket, (len + 1, 4) for a full chain of fewer than 3 entries.
Requests ==
    {[size |-> 0, capacity |-> 1]} \cup {[size |-> n + 1, capacity |-> 4] : n \in 1..2}

\* C22: newElemSlice(size, capacity) pops and returns the most recently freed
\* buffer, with length size, exactly when the free list is non-empty and that
\* buffer's capacity is >= capacity; otherwise it leaves the free list alone
\* and carves capacity slots from the tail of the slab (a fresh slab of 1024
\* slots first when fewer than capacity remain), returning a slice of length
\* size and capacity capacity.
C22_NewElemSlice ==
    \A q \in Requests :
        LET n == Len(freeSlices)
            r == newElemSlice(Map, q.size, q.capacity)
            fresh == allocBuffer.len < q.capacity
            rest == (IF fresh THEN SlabSize ELSE allocBuffer.len) - q.capacity
        IN IF n > 0 /\ freeSlices[n].cap >= q.capacity
           THEN /\ r.slice.base = freeSlices[n].base
                /\ r.slice.cap = freeSlices[n].cap
                /\ r.slice.len = q.size
                /\ r.m.freeSlices = SubSeq(freeSlices, 1, n - 1)
                /\ r.m.allocBuffer = allocBuffer
           ELSE /\ r.m.freeSlices = freeSlices
                /\ r.slice.len = q.size
                /\ r.slice.cap = q.capacity
                /\ r.m.allocBuffer.len = rest
                /\ r.m.allocBuffer.base = IF fresh THEN brk ELSE allocBuffer.base
                /\ r.slice.base = r.m.allocBuffer.base + rest

====
